---- MODULE Spec2Model ----
(***************************************************************************)
(* A model of the stock pipeline of scripts/fetch_and_store.py: the        *)
(* fetch -> parse -> upsert run of main(), the Alpha Vantage response it   *)
(* reads and the Postgres table daily_stock_prices it writes.              *)
(*                                                                         *)
(* Text is modelled as a sequence of one-character strings, so that        *)
(* datetime.strptime and float() are computed character by character.      *)
(* A float is a record: [k |-> "fin", neg, ip, fp] is the decimal number   *)
(* (+/-) ip + fp / 10^FracDigits; [k |-> "inf"] and [k |-> "nan"] are the  *)
(* non-finite values.                                                      *)
(***************************************************************************)
EXTENDS Integers, Sequences, FiniteSets, TLC

VARIABLES env, upstream, db, tx, conn, pc, symbol, time_series, idx, rows,
          page, exc, outcome, httpCalls, connsOpened, rolledBack, now, run,
          before, snap, raisedIn

vars == <<env, upstream, db, tx, conn, pc, symbol, time_series, idx, rows,
          page, exc, outcome, httpCalls, connsOpened, rolledBack, now, run,
          before, snap, raisedIn>>

(***************************************************************************)
(* Bounds of the model.                                                    *)
(***************************************************************************)
\* Longest raw time series given to parse_time_series alone (SpecParse).
MaxSeries == 2
\* Longest raw time series of an upstream response in a pipeline run (Spec).
MaxBatch == 2
\* Rows per statement of execute_values (psycopg2's page_size, 100 by
\* default), scaled down so that a batch spans several statements.
PageSize == 1
\* Pipeline runs the scheduler triggers in one behaviour.
MaxRuns == 2
\* Decimal digits kept after the point in the representation of a float.
FracDigits == 7

(***************************************************************************)
(* Characters and numerals.                                                *)
(***************************************************************************)
Digits == <<"0", "1", "2", "3", "4", "5", "6", "7", "8", "9">>

IsDigit(c) == \E i \in 1..10 : Digits[i] = c

DigitVal(c) == (CHOOSE i \in 1..10 : Digits[i] = c) - 1

AllDigits(s) == \A i \in 1..Len(s) : IsDigit(s[i])

RECURSIVE DigitsToNat(_)
DigitsToNat(s) ==
    IF s = <<>> THEN 0
    ELSE 10 * DigitsToNat(SubSeq(s, 1, Len(s) - 1)) + DigitVal(s[Len(s)])

RECURSIVE Pow10(_)
Pow10(n) == IF n = 0 THEN 1 ELSE 10 * Pow10(n - 1)

\* str.lower() on the letters the float grammar reads.
Lower(c) ==
    CASE c = "I" -> "i" [] c = "N" -> "n" [] c = "F" -> "f" [] c = "A" -> "a"
      [] c = "T" -> "t" [] c = "Y" -> "y" [] OTHER -> c

LowerStr(s) == [i \in 1..Len(s) |-> Lower(s[i])]

RECURSIVE Strip(_)
Strip(s) ==
    IF s = <<>> THEN s
    ELSE IF Head(s) = " " THEN Strip(Tail(s))
    ELSE IF s[Len(s)] = " " THEN Strip(SubSeq(s, 1, Len(s) - 1))
    ELSE s

(***************************************************************************)
(* datetime.strptime(date_str, "%Y-%m-%d").date()                          *)
(* The format compiles to the regular expression                           *)
(*   (?P<Y>\d\d\d\d)-(?P<m>1[0-2]|0[1-9]|[1-9])-                           *)
(*   (?P<d>3[0-1]|[1-2]\d|0[1-9]|[1-9]| [1-9])                             *)
(* matched at the start of the string; text left after the match, or a     *)
(* date the calendar does not have, is a ValueError.                       *)
(***************************************************************************)
NoDate == <<0, 0, 0>>

IsLeap(y) == (y % 4 = 0 /\ y % 100 # 0) \/ y % 400 = 0

DaysInMonth(y, m) ==
    IF m = 2 THEN (IF IsLeap(y) THEN 29 ELSE 28)
    ELSE IF m \in {4, 6, 9, 11} THEN 30 ELSE 31

At(s, i) == IF i >= 1 /\ i <= Len(s) THEN s[i] ELSE "$"

In19(c) == IsDigit(c) /\ c # "0"

\* Length of the text the month group takes at position 6 (0: no match);
\* the group is followed by "-", which the alternatives are retried for.
MonthLen(s) ==
    IF At(s, 6) = "1" /\ At(s, 7) \in {"0", "1", "2"} /\ At(s, 8) = "-" THEN 2
    ELSE IF At(s, 6) = "0" /\ In19(At(s, 7)) /\ At(s, 8) = "-" THEN 2
    ELSE IF In19(At(s, 6)) /\ At(s, 7) = "-" THEN 1
    ELSE 0

\* Length of the text the day group takes at position p (0: no match): the
\* first alternative that matches, nothing follows the group in the pattern.
DayLen(s, p) ==
    IF At(s, p) = "3" /\ At(s, p + 1) \in {"0", "1"} THEN 2
    ELSE IF At(s, p) \in {"1", "2"} /\ IsDigit(At(s, p + 1)) THEN 2
    ELSE IF At(s, p) = "0" /\ In19(At(s, p + 1)) THEN 2
    ELSE IF In19(At(s, p)) THEN 1
    ELSE IF At(s, p) = " " /\ In19(At(s, p + 1)) THEN 2
    ELSE 0

DayVal(s, p, n) ==
    IF n = 1 THEN DigitVal(s[p])
    ELSE IF s[p] = " " THEN DigitVal(s[p + 1])
    ELSE 10 * DigitVal(s[p]) + DigitVal(s[p + 1])

\* The calendar's check of the numbers read: date(y, m, d) raises ValueError
\* for the year 0 and for a day the month does not have.
DateOf(y, m, d) ==
    IF y < 1 \/ d > DaysInMonth(y, m) THEN NoDate ELSE <<y, m, d>>

\* The match continued at the day group, which starts at p and takes dl
\* characters; ml is the length of the month group.
MatchDay(s, ml, p, dl) ==
    IF dl = 0 \/ p + dl - 1 # Len(s) THEN NoDate
    ELSE DateOf(DigitsToNat(SubSeq(s, 1, 4)), DigitsToNat(SubSeq(s, 6, 5 + ml)),
                DayVal(s, p, dl))

\* The match continued at the month group, which takes ml characters.
MatchMonth(s, ml) ==
    IF ml = 0 THEN NoDate ELSE MatchDay(s, ml, 6 + ml + 1, DayLen(s, 6 + ml + 1))

\* The date <<year, month, day>>, or NoDate where strptime raises ValueError.
strptime(s) ==
    IF ~(Len(s) >= 5 /\ AllDigits(SubSeq(s, 1, 4)) /\ s[5] = "-") THEN NoDate
    ELSE MatchMonth(s, MonthLen(s))

(***************************************************************************)
(* JSON values of the response body and Python's float() and int().        *)
(***************************************************************************)
JStr(s) == [t |-> "str", s |-> s]
JNull == [t |-> "null", s |-> <<>>]
JList == [t |-> "list", s |-> <<>>]
\* A JSON number, kept as the numeral of the body's text.
JNum(s) == [t |-> "num", s |-> s]
\* A key the field mapping does not have.
Absent == [t |-> "absent", s |-> <<>>]

Fin(neg, ip, fp) ==
    [k |-> "fin", neg |-> neg /\ (ip # 0 \/ fp # 0), ip |-> ip, fp |-> fp]
Inf(neg) == [k |-> "inf", neg |-> neg, ip |-> 0, fp |-> 0]
NaN == [k |-> "nan", neg |-> FALSE, ip |-> 0, fp |-> 0]
\* An exception in place of a value.
Raise(e) == [k |-> e, neg |-> FALSE, ip |-> 0, fp |-> 0]

IsError(x) == x.k \notin {"fin", "inf", "nan"}

\* Position of the first "." of s, or 0.
DotPos(s) ==
    IF \E i \in 1..Len(s) : s[i] = "."
    THEN CHOOSE i \in 1..Len(s) : s[i] = "." /\ \A j \in 1..(i - 1) : s[j] # "."
    ELSE 0

\* The float with integer digits ipart and fraction digits fpart. A numeral
\* needs a digit; a fraction longer than FracDigits is outside the model.
FloatOfParts(neg, ipart, fpart) ==
    IF ~AllDigits(ipart) \/ ~AllDigits(fpart) \/ Len(ipart) + Len(fpart) = 0
       \/ Len(fpart) > FracDigits
    THEN Raise("ValueError")
    ELSE Fin(neg, DigitsToNat(ipart),
             DigitsToNat(fpart) * Pow10(FracDigits - Len(fpart)))

\* The numeral s split at its point, which is at position dp (0: none).
SplitAt(neg, s, dp) ==
    IF dp = 0 THEN FloatOfParts(neg, s, <<>>)
    ELSE FloatOfParts(neg, SubSeq(s, 1, dp - 1), SubSeq(s, dp + 1, Len(s)))

\* float() of an unsigned decimal numeral: digits, at most one point, at
\* least one digit. (Exponents and digit separators are not in the alphabet
\* of the model's inputs.)
FloatOfDecimal(neg, s) == SplitAt(neg, s, DotPos(s))

\* float() of what follows the sign, in lower case: "inf", "infinity" or
\* "nan", or a decimal numeral.
FloatOfBody(neg, body) ==
    IF body \in {<<"i", "n", "f">>, <<"i", "n", "f", "i", "n", "i", "t", "y">>}
    THEN Inf(neg)
    ELSE IF body = <<"n", "a", "n">> THEN NaN
    ELSE FloatOfDecimal(neg, body)

\* float() of a string without surrounding blanks: an optional sign, then
\* the body in any case.
FloatOfStripped(s) ==
    IF s # <<>> /\ Head(s) \in {"+", "-"}
    THEN FloatOfBody(Head(s) = "-", LowerStr(Tail(s)))
    ELSE FloatOfBody(FALSE, LowerStr(s))

\* float() of a string: surrounding blanks are stripped first.
FloatOfStr(s0) == FloatOfStripped(Strip(s0))

\* float(x) of a JSON value: a number as it is, a string parsed, TypeError
\* for null and for a list.
float(x) ==
    CASE x.t = "num" -> FloatOfStr(x.s)
      [] x.t = "str" -> FloatOfStr(x.s)
      [] OTHER -> Raise("TypeError")

\* int(f): truncation toward zero; OverflowError for an infinity and
\* ValueError for a NaN. The result is [k |-> "int", ip |-> the integer].
int(f) ==
    CASE f.k = "fin" -> [k |-> "int", neg |-> FALSE,
                         ip |-> IF f.neg THEN -f.ip ELSE f.ip, fp |-> 0]
      [] f.k = "inf" -> Raise("OverflowError")
      [] f.k = "nan" -> Raise("ValueError")
      [] OTHER -> f

(***************************************************************************)
(* parse_time_series                                                       *)
(***************************************************************************)
FieldKeys == <<"1. open", "2. high", "3. low", "4. close", "5. volume">>

\* daily_data[key]: TypeError when daily_data is no mapping (null, a string,
\* a list), KeyError when the mapping lacks the key.
Subscript(daily_data, key) ==
    IF daily_data.t # "map" THEN Raise("TypeError")
    ELSE IF daily_data.f[key].t = "absent" THEN Raise("KeyError")
    ELSE [k |-> "fin", neg |-> FALSE, ip |-> 0, fp |-> 0]

\* float(daily_data[key])
FloatField(daily_data, key) ==
    IF IsError(Subscript(daily_data, key)) THEN Subscript(daily_data, key)
    ELSE float(daily_data.f[key])

\* The exceptions the loop body's handler catches.
Caught == {"KeyError", "ValueError"}

\* The first exception among the outcomes of the try block's statements
\* ("" where a statement raised nothing), or "".
FirstError(steps) ==
    IF \A i \in 1..Len(steps) : steps[i] = "" THEN ""
    ELSE steps[CHOOSE i \in 1..Len(steps) :
                   steps[i] # "" /\ \A j \in 1..(i - 1) : steps[j] = ""]

\* What the iteration ends with: the row appended, or the exception, which
\* the handler catches (a skip) or which leaves parse_time_series.
EntryResult(first, row) ==
    IF first = "" THEN [r |-> "row", e |-> "", row |-> row]
    ELSE [r |-> IF first \in Caught THEN "skip" ELSE "raise", e |-> first,
          row |-> <<>>]

\* The statements of the try block in order, given what each evaluates to.
TryBlock(sym, trade_date, open_price, high_price, low_price, close_price, volume) ==
    EntryResult(
        FirstError(<<IF trade_date = NoDate THEN "ValueError" ELSE "",
                     IF IsError(open_price) THEN open_price.k ELSE "",
                     IF IsError(high_price) THEN high_price.k ELSE "",
                     IF IsError(low_price) THEN low_price.k ELSE "",
                     IF IsError(close_price) THEN close_price.k ELSE "",
                     IF volume.k # "int" THEN volume.k ELSE "">>),
        [symbol |-> sym, trade_date |-> trade_date,
         open |-> open_price, high |-> high_price, low |-> low_price,
         close |-> close_price, volume |-> volume.ip])

\* One iteration of the loop: a row, a skip (a caught exception) or an
\* exception that leaves parse_time_series.
ParseEntry(sym, date_str, daily_data) ==
    TryBlock(sym,
             strptime(date_str),
             FloatField(daily_data, "1. open"),
             FloatField(daily_data, "2. high"),
             FloatField(daily_data, "3. low"),
             FloatField(daily_data, "4. close"),
             int(FloatField(daily_data, "5. volume")))

(***************************************************************************)
(* The table daily_stock_prices and the statements run against it.         *)
(***************************************************************************)
\* NUMERIC(18, 6): digits kept after the point by the four price columns.
NumericScale == 6

\* A finite float rounded to q units of 10^-NumericScale, unit being
\* 10^(FracDigits - NumericScale).
Rounded(f, q, unit) ==
    IF q = Pow10(NumericScale) THEN Fin(f.neg, f.ip + 1, 0)
    ELSE Fin(f.neg, f.ip, q * unit)

RoundTo(f, unit) == Rounded(f, (f.fp + unit \div 2) \div unit, unit)

\* A Python float as stored in a NUMERIC(18, 6) column: rounded half away
\* from zero to NumericScale places; NaN is a value of the type, an infinity
\* is rejected (the statement fails). Magnitudes stay below 10^12.
ToNumeric(f) ==
    CASE f.k = "fin" -> RoundTo(f, Pow10(FracDigits - NumericScale))
      [] f.k = "nan" -> NaN
      [] OTHER -> Raise("psycopg2.Error")

\* PRIMARY KEY (symbol, trade_date), the conflict target of the upsert.
Key(r) == <<r.symbol, r.trade_date>>

\* The record a row of the VALUES list becomes at time t (NOW()).
Record(row, t) ==
    [symbol |-> row.symbol, trade_date |-> row.trade_date,
     open |-> ToNumeric(row.open), high |-> ToNumeric(row.high),
     low |-> ToNumeric(row.low), close |-> ToNumeric(row.close),
     volume |-> row.volume, last_updated |-> t]

\* Whether a column of the table rejects the value the record has for it.
RejectsRecord(r) ==
    IsError(r.open) \/ IsError(r.high) \/ IsError(r.low) \/ IsError(r.close)

\* Whether the statement over these rows raises: a value its column rejects,
\* or two rows of one statement with the same key ("ON CONFLICT DO UPDATE
\* command cannot affect row a second time").
StatementFails(rws) ==
    \/ \E i \in 1..Len(rws) : RejectsRecord(Record(rws[i], 0))
    \/ \E i, j \in 1..Len(rws) : i # j /\ Key(rws[i]) = Key(rws[j])

\* A variant: a plain INSERT into a table without its primary key, which
\* adds a record for every row.
InsertWithoutConflictClause(recs, rws, t) ==
    recs \cup {Record(rws[i], t) : i \in 1..Len(rws)}

\* A variant: ON CONFLICT DO NOTHING, which keeps the record a key has.
InsertOnConflictDoNothing(recs, rws, t) ==
    recs \cup {n \in {Record(rws[i], t) : i \in 1..Len(rws)} :
                  \A r \in recs : Key(r) # Key(n)}

\* The table's records with the new ones in place of those of their keys.
Merge(recs, new) == {r \in recs : \A n \in new : Key(n) # Key(r)} \cup new

\* INSERT ... VALUES rws ON CONFLICT (symbol, trade_date) DO UPDATE SET
\* open, high, low, close, volume = EXCLUDED.*, last_updated = NOW():
\* a record whose key a row has is replaced, every other row is inserted.
InsertOnConflictUpdate(recs, rws, t) ==
    Merge(recs, {Record(rws[i], t) : i \in 1..Len(rws)})

\* A variant: the connection left in autocommit mode, every statement
\* durable as it ends.
autocommit_enabled == TRUE

\* conn.autocommit = False: statements join one transaction that only
\* conn.commit() makes durable.
autocommit == FALSE

NoTx == [active |-> FALSE, exists |-> FALSE, recs |-> {}]

\* The table as the open connection sees it: its transaction's, or the
\* committed one.
View == IF tx.active THEN tx ELSE [active |-> TRUE, exists |-> db.exists, recs |-> db.recs]

Durable(t) == [exists |-> t.exists, recs |-> t.recs]

\* The rows of the statement execute_values issues next.
PageOf(rws, p) ==
    SubSeq(rws, p, IF p + PageSize - 1 < Len(rws) THEN p + PageSize - 1 ELSE Len(rws))

(***************************************************************************)
(* The inputs the model draws from.                                        *)
(***************************************************************************)
\* "2024-01-02"
D_0102 == <<"2", "0", "2", "4", "-", "0", "1", "-", "0", "2">>
\* "2024-1-2"
D_1_2 == <<"2", "0", "2", "4", "-", "1", "-", "2">>
\* "2024-01-03"
D_0103 == <<"2", "0", "2", "4", "-", "0", "1", "-", "0", "3">>
\* "2024-02-30"
D_0230 == <<"2", "0", "2", "4", "-", "0", "2", "-", "3", "0">>
\* "01/02/2024"
D_slash == <<"0", "1", "/", "0", "2", "/", "2", "0", "2", "4">>
\* "370.0"
S_370 == <<"3", "7", "0", ".", "0">>
\* "375.5"
S_375_5 == <<"3", "7", "5", ".", "5">>
\* "369.0"
S_369 == <<"3", "6", "9", ".", "0">>
\* "374.0"
S_374 == <<"3", "7", "4", ".", "0">>
\* "21000000"
S_vol == <<"2", "1", "0", "0", "0", "0", "0", "0">>
\* "1.0000005"
S_round == <<"1", ".", "0", "0", "0", "0", "0", "0", "5">>
\* "1500.7"
S_fracvol == <<"1", "5", "0", "0", ".", "7">>
\* "abc"
S_abc == <<"a", "b", "c">>
\* "inf"
S_inf == <<"i", "n", "f">>
\* "NaN"
S_nan == <<"N", "a", "N">>
\* " -2.5"
S_neg == <<" ", "-", "2", ".", "5">>

DailyData(o, h, l, c, v) ==
    [t |-> "map",
     f |-> ("1. open" :> o @@ "2. high" :> h @@ "3. low" :> l @@ "4. close" :> c
            @@ "5. volume" :> v)]

\* A value of the time series that is no field mapping: null, a string.
NotAMapping(kind) ==
    [t |-> kind, f |-> [key \in {FieldKeys[i] : i \in 1..5} |-> Absent]]

GoodA == DailyData(JStr(S_370), JStr(S_375_5), JStr(S_369), JStr(S_374), JStr(S_vol))
GoodB == DailyData(JStr(S_round), JStr(S_375_5), JStr(S_neg), JStr(S_374), JStr(S_fracvol))
Numbers == DailyData(JNum(S_370), JNum(S_375_5), JNum(S_369), JNum(S_374), JNum(S_vol))
BadVolume == DailyData(JStr(S_370), JStr(S_375_5), JStr(S_369), JStr(S_374), JStr(S_abc))
MissingClose == DailyData(JStr(S_370), JStr(S_375_5), JStr(S_369), Absent, JStr(S_vol))
NullOpen == DailyData(JNull, JStr(S_375_5), JStr(S_369), JStr(S_374), JStr(S_vol))
InfVolume == DailyData(JStr(S_370), JStr(S_375_5), JStr(S_369), JStr(S_374), JStr(S_inf))
NaNHigh == DailyData(JStr(S_370), JStr(S_nan), JStr(S_369), JStr(S_374), JStr(S_vol))
InfLow == DailyData(JStr(S_370), JStr(S_375_5), JStr(S_inf), JStr(S_374), JStr(S_vol))

\* The items of a JSON object in the order of its text: sequences of at most
\* n (date string, value) pairs with pairwise distinct date strings.
DistinctDates(q) ==
    \A i, j \in DOMAIN q : i # j => q[i].date_str # q[j].date_str

Items(S, n) == UNION {{q \in [1..k -> S] : DistinctDates(q)} : k \in 0..n}

Series(dates, entries, n) ==
    {[t |-> "map", items |-> q] :
        q \in Items([date_str : dates, daily_data : entries], n)}

NullSeries == [t |-> "null", items |-> <<>>]

\* The raw time series parse_time_series is applied to on its own.
ParseInputs ==
    Series({D_0102, D_1_2, D_0103, D_0230, D_slash},
           {GoodA, GoodB, Numbers, BadVolume, MissingClose, NullOpen, InfVolume,
            NaNHigh, NotAMapping("str")},
           MaxSeries)
    \cup {NullSeries}

(***************************************************************************)
(* The environment and the upstream API.                                   *)
(***************************************************************************)
\* os.getenv of a variable that is not set.
None == "<None>"

EnvNames == {"ALPHAVANTAGE_API_KEY", "POSTGRES_USER", "POSTGRES_PASSWORD",
             "POSTGRES_DB", "POSTGRES_HOST", "POSTGRES_PORT", "STOCK_SYMBOL"}

\* os.getenv(name, default)
getenv(name, default) == IF env[name] = None THEN default ELSE env[name]

\* A variant: "value is None" in place of "not value", which lets an empty
\* required variable through.
get_env_var_none_only(name, default, required) ==
    IF required /\ getenv(name, default) = None
    THEN [exc |-> "RuntimeError", value |-> None]
    ELSE [exc |-> "", value |-> getenv(name, default)]

\* get_env_var: os.getenv(name, default); a required variable that is unset
\* or empty raises RuntimeError.
get_env_var(name, default, required) ==
    IF required /\ getenv(name, default) \in {None, ""}
    THEN [exc |-> "RuntimeError", value |-> None]
    ELSE [exc |-> "", value |-> getenv(name, default)]

FullEnv == [n \in EnvNames |-> IF n \in {"POSTGRES_HOST", "POSTGRES_PORT", "STOCK_SYMBOL"}
                               THEN None ELSE "set"]

Envs == {FullEnv,
         [FullEnv EXCEPT !["ALPHAVANTAGE_API_KEY"] = None],
         [FullEnv EXCEPT !["ALPHAVANTAGE_API_KEY"] = ""],
         [FullEnv EXCEPT !["POSTGRES_PASSWORD"] = None],
         [FullEnv EXCEPT !["STOCK_SYMBOL"] = "AAPL"]}

\* What requests.get meets: a timeout, a connection failure, or a response
\* with a status and a body. A JSON body is a dict, a list, a string or
\* null; err and ts say whether "Error Message" and "Time Series (Daily)"
\* are in it (a key of the dict, an item of the list, a part of the string),
\* series is the dict's value under "Time Series (Daily)".
Body(t, err, ts, series) == [t |-> t, err |-> err, ts |-> ts, series |-> series]

Response(kind, status, json, body) ==
    [kind |-> kind, status |-> status, json |-> json, body |-> body]

NoBody == Body("null", FALSE, FALSE, NullSeries)

PipelineSeries ==
    Series({D_0102, D_1_2, D_0103}, {GoodA, GoodB, BadVolume, NullOpen}, MaxBatch)
    \cup {[t |-> "map", items |-> <<[date_str |-> D_0103, daily_data |-> InfLow]>>],
          [t |-> "map", items |-> <<[date_str |-> D_0102, daily_data |-> GoodA],
                                    [date_str |-> D_0103, daily_data |-> InfLow]>>],
          NullSeries}

Upstreams ==
    {Response("timeout", 0, FALSE, NoBody), Response("connerr", 0, FALSE, NoBody),
     Response("response", 500, TRUE, Body("dict", FALSE, TRUE, [t |-> "map", items |-> <<>>])),
     Response("response", 200, FALSE, NoBody),
     Response("response", 200, TRUE, NoBody)}
    \cup {Response("response", 200, TRUE, Body(t, err, ts, [t |-> "map", items |-> <<>>])) :
             t \in {"dict", "list", "str"}, err \in BOOLEAN, ts \in BOOLEAN}
    \cup {Response("response", 200, TRUE, Body("dict", FALSE, TRUE, s)) :
             s \in PipelineSeries}

\* A response with a time series of one well-formed entry, and the same
\* with an "Error Message" beside it.
GoodResponse(err) ==
    Response("response", 200, TRUE,
             Body("dict", err, TRUE,
                  [t |-> "map", items |-> <<[date_str |-> D_0102, daily_data |-> GoodA]>>]))

\* A variant: the body is not searched for "Error Message" before the time
\* series is taken from it.
fetch_without_error_check(sym) ==
    LET data == upstream.body IN
    IF get_env_var("ALPHAVANTAGE_API_KEY", None, TRUE).exc # ""
    THEN [exc |-> "RuntimeError", calls |-> 0, value |-> NullSeries]
    ELSE IF upstream.kind = "timeout"
    THEN [exc |-> "Timeout", calls |-> 1, value |-> NullSeries]
    ELSE IF upstream.kind = "connerr"
    THEN [exc |-> "ConnectionError", calls |-> 1, value |-> NullSeries]
    ELSE IF upstream.status >= 400
    THEN [exc |-> "HTTPError", calls |-> 1, value |-> NullSeries]
    ELSE IF ~upstream.json
    THEN [exc |-> "JSONDecodeError", calls |-> 1, value |-> NullSeries]
    ELSE IF data.t = "null"
    THEN [exc |-> "TypeError", calls |-> 1, value |-> NullSeries]
    ELSE IF ~data.ts
    THEN [exc |-> "RuntimeError", calls |-> 1, value |-> NullSeries]
    ELSE IF data.t # "dict"
    THEN [exc |-> "TypeError", calls |-> 1, value |-> NullSeries]
    ELSE [exc |-> "", calls |-> 1, value |-> data.series]

\* fetch_stock_data: the exception it raises ("" for none), the HTTP
\* requests it issued and the value it returns.
fetch_stock_data(sym) ==
    LET data == upstream.body IN
    IF get_env_var("ALPHAVANTAGE_API_KEY", None, TRUE).exc # ""
    THEN [exc |-> "RuntimeError", calls |-> 0, value |-> NullSeries]
    ELSE IF upstream.kind = "timeout"
    THEN [exc |-> "Timeout", calls |-> 1, value |-> NullSeries]
    ELSE IF upstream.kind = "connerr"
    THEN [exc |-> "ConnectionError", calls |-> 1, value |-> NullSeries]
    ELSE IF upstream.status >= 400
    THEN [exc |-> "HTTPError", calls |-> 1, value |-> NullSeries]
    ELSE IF ~upstream.json
    THEN [exc |-> "JSONDecodeError", calls |-> 1, value |-> NullSeries]
    ELSE IF data.t = "null"
    THEN [exc |-> "TypeError", calls |-> 1, value |-> NullSeries]
    ELSE IF data.err
    THEN [exc |-> "RuntimeError", calls |-> 1, value |-> NullSeries]
    ELSE IF ~data.ts
    THEN [exc |-> "RuntimeError", calls |-> 1, value |-> NullSeries]
    ELSE IF data.t # "dict"
    THEN [exc |-> "TypeError", calls |-> 1, value |-> NullSeries]
    ELSE [exc |-> "", calls |-> 1, value |-> data.series]

(***************************************************************************)
(* The state before the first run.                                         *)
(***************************************************************************)
OldPrice == Fin(FALSE, 100, 0)

OldRecord(sym, date) ==
    [symbol |-> sym, trade_date |-> date, open |-> OldPrice, high |-> OldPrice,
     low |-> OldPrice, close |-> OldPrice, volume |-> 5, last_updated |-> 0]

\* The database as earlier runs may have left it: no table, an empty table,
\* a table holding records of this and of another symbol.
Databases ==
    {[exists |-> FALSE, recs |-> {}],
     [exists |-> TRUE, recs |-> {}],
     [exists |-> TRUE,
      recs |-> {OldRecord("MSFT", <<2024, 1, 2>>), OldRecord("AAPL", <<2024, 1, 3>>),
                OldRecord("GOOG", <<2024, 1, 2>>)}]}

\* The table without its last_updated column.
Values(t) ==
    [exists |-> t.exists,
     recs |-> {[symbol |-> r.symbol, trade_date |-> r.trade_date, open |-> r.open,
                high |-> r.high, low |-> r.low, close |-> r.close,
                volume |-> r.volume] : r \in t.recs},
     count |-> Cardinality(t.recs)]

NoSnap == [exists |-> FALSE, recs |-> {}, count |-> -1]

Init ==
    /\ \/ env = FullEnv /\ upstream \in Upstreams \cup {GoodResponse(TRUE)}
       \/ env \in Envs /\ upstream = GoodResponse(FALSE)
    /\ db \in Databases
    /\ tx = NoTx
    /\ conn = "none"
    /\ pc = "idle"
    /\ symbol = ""
    /\ time_series = NullSeries
    /\ idx = 1
    /\ rows = <<>>
    /\ page = 1
    /\ exc = ""
    /\ outcome = ""
    /\ httpCalls = 0
    /\ connsOpened = 0
    /\ rolledBack = FALSE
    /\ now = 0
    /\ run = 0
    /\ before = db
    /\ snap = NoSnap
    /\ raisedIn = ""

(***************************************************************************)
(* main(), one action per stage. An exception is carried in exc to the     *)
(* handler that ends the run.                                              *)
(***************************************************************************)
\* The scheduler calls main(): the symbol is read and the run begins.
StartRun ==
    /\ pc \in {"idle", "done"}
    /\ run < MaxRuns
    /\ run' = run + 1
    /\ now' = now + 1
    /\ symbol' = get_env_var("STOCK_SYMBOL", "MSFT", FALSE).value
    /\ snap' = IF outcome = "ok" THEN Values(db) ELSE snap
    /\ before' = db
    /\ pc' = "fetch"
    /\ time_series' = NullSeries
    /\ idx' = 1
    /\ rows' = <<>>
    /\ page' = 1
    /\ exc' = ""
    /\ outcome' = ""
    /\ httpCalls' = 0
    /\ connsOpened' = 0
    /\ rolledBack' = FALSE
    /\ raisedIn' = ""
    /\ conn' = "none"
    /\ tx' = NoTx
    /\ UNCHANGED <<env, upstream, db>>

\* The state as fetch_stock_data leaves it, given what it did.
FetchReturns(got) ==
    /\ httpCalls' = httpCalls + got.calls
    /\ exc' = got.exc
    /\ time_series' = got.value
    /\ pc' = IF got.exc = "" THEN "parse" ELSE "except"
    /\ raisedIn' = IF got.exc = "" THEN "" ELSE "fetch"

\* time_series = fetch_stock_data(symbol)
Fetch ==
    /\ pc = "fetch"
    /\ FetchReturns(fetch_stock_data(symbol))
    /\ idx' = 1
    /\ rows' = <<>>
    /\ UNCHANGED <<env, upstream, db, tx, conn, symbol, page, outcome, connsOpened,
                   rolledBack, now, run, before, snap>>

\* The state as one iteration of the loop leaves it, given its result.
Iterated(got) ==
    /\ rows' = IF got.r = "row" THEN Append(rows, got.row) ELSE rows
    /\ exc' = IF got.r = "raise" THEN got.e ELSE ""
    /\ pc' = IF got.r = "raise" THEN "except" ELSE "parse"
    /\ raisedIn' = IF got.r = "raise" THEN "parse" ELSE ""

\* parse_time_series, one step of its loop: time_series.items() of a value
\* that is no mapping raises AttributeError; an item gives a row, is skipped
\* or raises; after the last item the rows are returned.
ParseStep ==
    /\ pc = "parse"
    /\ \/ /\ time_series.t # "map"
          /\ exc' = "AttributeError"
          /\ raisedIn' = "parse"
          /\ pc' = "except"
          /\ UNCHANGED <<idx, rows>>
       \/ /\ time_series.t = "map"
          /\ idx <= Len(time_series.items)
          /\ Iterated(ParseEntry(symbol, time_series.items[idx].date_str,
                                 time_series.items[idx].daily_data))
          /\ idx' = idx + 1
       \/ /\ time_series.t = "map"
          /\ idx > Len(time_series.items)
          /\ pc' = "connect"
          /\ UNCHANGED <<idx, rows, exc, raisedIn>>
    /\ UNCHANGED <<env, upstream, db, tx, conn, symbol, time_series, page, outcome,
                   httpCalls, connsOpened, rolledBack, now, run, before, snap>>

\* The required settings of get_db_connection, read in its order.
DbSettings ==
    LET names == <<"POSTGRES_USER", "POSTGRES_PASSWORD", "POSTGRES_DB">> IN
    IF \E i \in 1..3 : get_env_var(names[i], None, TRUE).exc # ""
    THEN "RuntimeError" ELSE ""

\* conn = get_db_connection(): a missing setting raises before connecting;
\* psycopg2.connect returns a connection or raises.
Connect ==
    /\ pc = "connect"
    /\ \/ /\ DbSettings # ""
          /\ exc' = DbSettings
          /\ raisedIn' = "connect"
          /\ pc' = "except"
          /\ UNCHANGED <<conn, connsOpened>>
       \/ /\ DbSettings = ""
          /\ exc' = "psycopg2.Error"
          /\ raisedIn' = "connect"
          /\ pc' = "except"
          /\ UNCHANGED <<conn, connsOpened>>
       \/ /\ DbSettings = ""
          /\ conn' = "open"
          /\ connsOpened' = connsOpened + 1
          /\ pc' = "ensure"
          /\ UNCHANGED <<exc, raisedIn>>
    /\ UNCHANGED <<env, upstream, db, tx, symbol, time_series, idx, rows, page,
                   outcome, httpCalls, rolledBack, now, run, before, snap>>

\* ensure_table_exists(conn): CREATE TABLE IF NOT EXISTS inside the
\* connection's transaction, or the statement fails.
ensure_table_exists ==
    /\ pc = "ensure"
    /\ \/ /\ tx' = [active |-> TRUE, exists |-> TRUE, recs |-> View.recs]
          /\ db' = IF autocommit THEN Durable(tx') ELSE db
          /\ pc' = "upsert"
          /\ UNCHANGED <<exc, raisedIn>>
       \/ /\ exc' = "psycopg2.Error"
          /\ raisedIn' = "ensure"
          /\ pc' = "finally"
          /\ UNCHANGED <<tx, db>>
    /\ UNCHANGED <<env, upstream, conn, symbol, time_series, idx, rows, page, outcome,
                   httpCalls, connsOpened, rolledBack, now, run, before, snap>>

\* upsert_stock_data(conn, rows) with no rows: a warning, then return.
UpsertNoRows ==
    /\ pc = "upsert"
    /\ rows = <<>>
    /\ pc' = "finally"
    /\ UNCHANGED <<env, upstream, db, tx, conn, symbol, time_series, idx, rows, page,
                   exc, outcome, httpCalls, connsOpened, rolledBack, now, run,
                   before, snap, raisedIn>>

\* execute_values: the next statement of the bulk write, over one page of
\* rows. It fails on what the server rejects, and may fail on a lost
\* connection.
UpsertPage ==
    /\ pc = "upsert"
    /\ rows # <<>>
    /\ page <= Len(rows)
    /\ \/ /\ ~StatementFails(PageOf(rows, page))
          /\ tx' = [active |-> TRUE, exists |-> View.exists,
                    recs |-> InsertOnConflictUpdate(View.recs, PageOf(rows, page), now)]
          /\ db' = IF autocommit THEN Durable(tx') ELSE db
          /\ page' = page + PageSize
          /\ UNCHANGED <<pc, exc, raisedIn>>
       \/ /\ exc' = "psycopg2.Error"
          /\ raisedIn' = "execute"
          /\ pc' = "rollback"
          /\ UNCHANGED <<tx, db, page>>
    /\ UNCHANGED <<env, upstream, conn, symbol, time_series, idx, rows, outcome,
                   httpCalls, connsOpened, rolledBack, now, run, before, snap>>

\* conn.commit(): the transaction becomes durable; or it raises, with the
\* transaction lost or (the acknowledgement lost) committed all the same.
Commit ==
    /\ pc = "upsert"
    /\ rows # <<>>
    /\ page > Len(rows)
    /\ \/ /\ db' = Durable(View)
          /\ tx' = NoTx
          /\ pc' = "finally"
          /\ UNCHANGED <<exc, raisedIn>>
       \/ /\ exc' = "psycopg2.Error"
          /\ raisedIn' = "commit"
          /\ pc' = "rollback"
          /\ UNCHANGED <<db, tx>>
       \/ /\ exc' = "psycopg2.Error"
          /\ raisedIn' = "commit"
          /\ pc' = "rollback"
          /\ db' = Durable(View)
          /\ tx' = NoTx
    /\ UNCHANGED <<env, upstream, conn, symbol, time_series, idx, rows, page, outcome,
                   httpCalls, connsOpened, rolledBack, now, run, before, snap>>

\* except psycopg2.Error: conn.rollback(), log, raise.
Rollback ==
    /\ pc = "rollback"
    /\ tx' = NoTx
    /\ rolledBack' = TRUE
    /\ pc' = "finally"
    /\ UNCHANGED <<env, upstream, db, conn, symbol, time_series, idx, rows, page, exc,
                   outcome, httpCalls, connsOpened, now, run, before, snap, raisedIn>>

\* A variant: conn.close() after the upsert instead of in a finally clause,
\* so that an exception passes it by.
CloseOnSuccess ==
    /\ pc = "finally"
    /\ conn' = IF exc = "" THEN "closed" ELSE conn
    /\ tx' = NoTx
    /\ pc' = IF exc = "" THEN "return" ELSE "except"
    /\ UNCHANGED <<env, upstream, db, symbol, time_series, idx, rows, page, exc,
                   outcome, httpCalls, connsOpened, rolledBack, now, run, before,
                   snap, raisedIn>>

\* finally: conn.close(). What the transaction has not committed is lost.
Close ==
    /\ pc = "finally"
    /\ conn' = "closed"
    /\ tx' = NoTx
    /\ pc' = IF exc = "" THEN "return" ELSE "except"
    /\ UNCHANGED <<env, upstream, db, symbol, time_series, idx, rows, page, exc,
                   outcome, httpCalls, connsOpened, rolledBack, now, run, before, snap, raisedIn>>

\* The run completed: main() returns.
Return ==
    /\ pc = "return"
    /\ outcome' = "ok"
    /\ pc' = "done"
    /\ UNCHANGED <<env, upstream, db, tx, conn, symbol, time_series, idx, rows, page,
                   exc, httpCalls, connsOpened, rolledBack, now, run, before, snap, raisedIn>>

\* except Exception: the failure is logged and raised again to the caller.
Except ==
    /\ pc = "except"
    /\ outcome' = "failed"
    /\ pc' = "done"
    /\ UNCHANGED <<env, upstream, db, tx, conn, symbol, time_series, idx, rows, page,
                   exc, httpCalls, connsOpened, rolledBack, now, run, before, snap, raisedIn>>

Next ==
    \/ StartRun
    \/ Fetch
    \/ ParseStep
    \/ Connect
    \/ ensure_table_exists
    \/ UpsertNoRows
    \/ UpsertPage
    \/ Commit
    \/ Rollback
    \/ Close
    \/ Return
    \/ Except

Spec == Init /\ [][Next]_vars

(***************************************************************************)
(* parse_time_series on its own, over a wider set of raw time series.      *)
(***************************************************************************)
InitParse ==
    /\ env = FullEnv
    /\ upstream = Response("response", 200, TRUE, NoBody)
    /\ db = [exists |-> FALSE, recs |-> {}]
    /\ tx = NoTx
    /\ conn = "none"
    /\ pc = "parse"
    /\ symbol = "MSFT"
    /\ time_series \in ParseInputs
    /\ idx = 1
    /\ rows = <<>>
    /\ page = 1
    /\ exc = ""
    /\ outcome = ""
    /\ httpCalls = 0
    /\ connsOpened = 0
    /\ rolledBack = FALSE
    /\ now = 0
    /\ run = 0
    /\ before = db
    /\ snap = NoSnap
    /\ raisedIn = ""

NextParse == ParseStep

SpecParse == InitParse /\ [][NextParse]_vars

(***************************************************************************)
(* What the specification calls a well-formed entry: a date string of the  *)
(* strict form YYYY-MM-DD naming a calendar date, and a field mapping      *)
(* whose five fields are present and finite numbers.                       *)
(***************************************************************************)
StrictDate(s) ==
    /\ Len(s) = 10
    /\ \A i \in {1, 2, 3, 4, 6, 7, 9, 10} : IsDigit(s[i])
    /\ s[5] = "-" /\ s[8] = "-"
    /\ strptime(s) # NoDate

IsNumber(x) == x.t \in {"str", "num"} /\ float(x).k = "fin"

WellFormed(item) ==
    /\ StrictDate(item.date_str)
    /\ item.daily_data.t = "map"
    /\ \A i \in 1..5 : IsNumber(item.daily_data.f[FieldKeys[i]])

\* The value columns of a record or of a row.
ValueColumns(r) == <<r.open, r.high, r.low, r.close, r.volume>>

\* The value columns a row has once stored: prices as NUMERIC(18, 6).
StoredColumns(row) ==
    <<ToNumeric(row.open), ToNumeric(row.high), ToNumeric(row.low),
      ToNumeric(row.close), row.volume>>

BatchKeys(rws) == {Key(rws[i]) : i \in 1..Len(rws)}

\* The last row of the batch with the key of row i.
LastWith(rws, i) ==
    CHOOSE j \in 1..Len(rws) :
        /\ Key(rws[j]) = Key(rws[i])
        /\ \A k \in (j + 1)..Len(rws) : Key(rws[k]) # Key(rws[i])

\* Table d is table b with the whole batch rws merged into it at time t.
AllApplied(b, rws, d, t) ==
    /\ d.exists
    /\ \A i \in 1..Len(rws) :
          /\ Cardinality({r \in d.recs : Key(r) = Key(rws[i])}) = 1
          /\ \A r \in d.recs :
                Key(r) = Key(rws[i]) =>
                    /\ ValueColumns(r) = StoredColumns(rws[LastWith(rws, i)])
                    /\ r.last_updated = t
    /\ \A r \in d.recs : Key(r) \in BatchKeys(rws) \/ r \in b.recs
    /\ \A r \in b.recs : Key(r) \in BatchKeys(rws) \/ r \in d.recs

NoDuplicateKeys(recs) == \A r1, r2 \in recs : Key(r1) = Key(r2) => r1 = r2

\* The run has returned from fetch_stock_data, or left it by an exception.
HasFetched == run >= 1 /\ pc \notin {"idle", "fetch"}

\* The run wrote its rows and returned normally.
Committed == pc = "done" /\ outcome = "ok" /\ rows # <<>>

(***************************************************************************)
(* The claims.                                                             *)
(***************************************************************************)

\* C1: a run with the response of the last successful run leaves the table
\* with the same keys, the same value columns and the same number of
\* records as that run left it; only last_updated may differ.
C1_Idempotent == snap # NoSnap => Values(db) = snap

\* C1, its case: a second successful run has rewritten, with a later
\* last_updated, a record the first run had written.
C1_Witness ==
    /\ snap # NoSnap /\ pc = "done" /\ outcome = "ok" /\ run = 2
    /\ \E r \in db.recs : \E b \in before.recs :
          /\ Key(r) = Key(b) /\ Key(r) \in BatchKeys(rows)
          /\ b.last_updated = 1 /\ r.last_updated = 2

\* C2 as stated: after a non-empty batch is committed every row of the batch
\* has exactly one record with its key whose value columns equal the row's.
C2_Original ==
    Committed =>
        \A i \in 1..Len(rows) :
            /\ Cardinality({r \in db.recs : Key(r) = Key(rows[i])}) = 1
            /\ \A r \in db.recs :
                  Key(r) = Key(rows[i]) => ValueColumns(r) = ValueColumns(rows[i])

\* C2 as amended: after a non-empty batch is committed every key of the
\* batch has exactly one record, holding the value columns of the last row
\* of the batch with that key as the column types store them (prices
\* rounded to six decimal places) and a refreshed last_updated; records of
\* other keys are unchanged; and no table state, committed or inside the
\* transaction, holds two records with one (symbol, trade_date).
C2_MergeSemantics ==
    /\ NoDuplicateKeys(db.recs)
    /\ NoDuplicateKeys(View.recs)
    /\ Committed => AllApplied(before, rows, db, now)

\* C2, its case: one committed batch has overwritten a record, inserted a
\* record and left a record of another key alone.
C2_Witness ==
    /\ Committed
    /\ \E i \in 1..Len(rows) : \E b \in before.recs :
          Key(b) = Key(rows[i]) /\ ValueColumns(b) # StoredColumns(rows[i])
    /\ \E i \in 1..Len(rows) : \A b \in before.recs : Key(b) # Key(rows[i])
    /\ \E b \in before.recs : Key(b) \notin BatchKeys(rows) /\ b \in db.recs

\* C3: the committed table is at every moment either the table the run
\* found or that table with the whole batch merged; a failure of a
\* statement of the bulk write or of the commit rolls the transaction back
\* and ends the run with the database error; a run that returns normally
\* has committed the whole batch.
C3_Atomic ==
    /\ db = before \/ (rows # <<>> /\ AllApplied(before, rows, db, now))
    /\ (pc \in {"finally", "except", "done"} /\ raisedIn \in {"execute", "commit"}) =>
          rolledBack /\ exc = "psycopg2.Error" /\ ~tx.active
    /\ (pc = "done" /\ raisedIn \in {"execute", "commit"}) => outcome = "failed"
    /\ Committed => AllApplied(before, rows, db, now)

\* C3, its case: a later statement of the bulk write failed after an
\* earlier one had succeeded, and the table is as the run found it.
C3_Witness ==
    /\ pc = "done" /\ raisedIn = "execute" /\ page > 1 /\ Len(rows) >= 2
    /\ rolledBack /\ outcome = "failed" /\ db = before

\* C4 as stated: parse_time_series does not raise, and the rows it has
\* built are one for each well-formed entry it has passed.
C4_SkipsMalformedEntries ==
    time_series.t = "map" =>
        /\ raisedIn # "parse"
        /\ Len(rows) =
             Cardinality({i \in 1..(idx - 1) : WellFormed(time_series.items[i])})

\* C5 as stated: a time series with no well-formed entry gives no rows and
\* no exception of the parse, the table is left as it was, and the run
\* returns normally when the database accepts the connection and the
\* schema statement.
C5_EmptyInputIsNoOp ==
    (/\ pc = "done"
     /\ time_series.t = "map"
     /\ \A i \in 1..Len(time_series.items) : ~WellFormed(time_series.items[i])) =>
        /\ raisedIn # "parse"
        /\ rows = <<>>
        /\ db = before
        /\ raisedIn \notin {"connect", "ensure"} => outcome = "ok"

\* C6: a 200 response whose body has "Error Message" makes the fetch raise
\* RuntimeError, with or without "Time Series (Daily)" beside it; the fetch
\* returns only for a successful status, a body that parses, has no
\* "Error Message" and has "Time Series (Daily)", whose value it returns;
\* a body without that key raises.
C6_ErrorPrecedence ==
    HasFetched =>
        /\ (/\ upstream.kind = "response" /\ upstream.status = 200
            /\ upstream.json /\ upstream.body.t = "dict" /\ upstream.body.err) =>
               raisedIn = "fetch" /\ exc = "RuntimeError"
        /\ raisedIn # "fetch" =>
               /\ upstream.kind = "response" /\ upstream.status < 400
               /\ upstream.json /\ ~upstream.body.err /\ upstream.body.ts
               /\ time_series = upstream.body.series
        /\ (/\ upstream.kind = "response" /\ upstream.status = 200
            /\ upstream.json /\ ~upstream.body.ts) =>
               raisedIn = "fetch"

\* C6, its case: the request was made, the body had both keys, and the
\* fetch raised.
C6_Witness ==
    /\ HasFetched /\ httpCalls = 1 /\ upstream.status = 200
    /\ upstream.body.t = "dict" /\ upstream.body.err /\ upstream.body.ts
    /\ Len(upstream.body.series.items) > 0
    /\ raisedIn = "fetch" /\ exc = "RuntimeError"

\* C7: with the API key unset or empty, the run issues no HTTP request and
\* opens no database connection, and it ends with RuntimeError raised by
\* the fetch.
C7_NoNetworkWithoutCredential ==
    (env["ALPHAVANTAGE_API_KEY"] \in {None, ""} /\ run >= 1) =>
        /\ httpCalls = 0 /\ connsOpened = 0 /\ conn = "none"
        /\ pc \notin {"parse", "connect", "ensure", "upsert", "rollback", "finally", "return"}
        /\ pc = "done" => outcome = "failed" /\ exc = "RuntimeError" /\ raisedIn = "fetch"

\* C7, its case: a run with an empty API key has ended.
C7_Witness ==
    /\ env["ALPHAVANTAGE_API_KEY"] = "" /\ pc = "done" /\ outcome = "failed"
    /\ httpCalls = 0

\* C8: a run opens at most one connection, a connection is open only
\* between get_db_connection and the finally clause, and no run ends with
\* its connection open.
C8_ConnectionReleased ==
    /\ connsOpened <= 1
    /\ conn = "open" => pc \in {"ensure", "upsert", "rollback", "finally"}
    /\ pc = "done" => (conn = "closed" <=> connsOpened = 1) /\ conn # "open"

\* C8, its case: the upsert raised and the run ended with its connection
\* closed.
C8_Witness ==
    /\ pc = "done" /\ raisedIn = "execute" /\ connsOpened = 1 /\ conn = "closed"

\* C9 as stated: after a run that returns normally the table exists.
C9_SchemaDurable == (pc = "done" /\ outcome = "ok") => db.exists

\* C10 as stated: the rows parse_time_series returns have pairwise distinct
\* (symbol, trade_date).
C10_DistinctKeys ==
    (pc = "connect" /\ time_series.t = "map") =>
        \A i, j \in 1..Len(rows) : i # j => Key(rows[i]) # Key(rows[j])

====
